---- MODULE Spec2Model ----
(***************************************************************************)
(* Model of the plain-text editor of OpenDocument.js (class TextEditor and *)
(* class History).  The text body is a sequence of lines (the DIV children *)
(* of textBody, each read through textContent), the gutter textNr is the   *)
(* sequence of its cell labels, and the selection is the host's single     *)
(* window.getSelection() object.  A string is a sequence of one-character  *)
(* strings, so that slicing, splitting and joining are computed and not    *)
(* assumed.                                                                *)
(***************************************************************************)
EXTENDS Integers, Sequences, FiniteSets, TLC

VARIABLES
    lines,      \* textBody.childNodes: the text of each line, in order
    textNr,     \* textNr children: the label of each gutter cell, in order
    past,       \* History.past
    future,     \* History.future
    sel,        \* window.getSelection(): rangeCount and the bounds of range 0
    lastOp,     \* observation: the last handler that ran and what it did
    snap,       \* observation: buffer and past right after the last push
    low,        \* observation: least length of past since the last push
    undone,     \* observation: undos less redos that replayed since the last push
    pc,         \* position of the caller that drives single operations
    arg,        \* arguments of the operation the caller applied
    ret,        \* value the operation returned
    orig,       \* buffer before the caller's first operation
    currentIndex,   \* search: index of the current match, or NaN
    results,        \* search: className of each <mark> element, in document order
    isNext          \* search: direction of the last jump

vars == <<lines, textNr, past, future, sel, lastOp, snap, low, undone, pc, arg, ret,
          orig, currentIndex, results, isNext>>

-----------------------------------------------------------------------------
(* Bounds of the model *)

MaxLines == 2       \* most lines a buffer may grow to
MaxLineLen == 2     \* most characters a line may grow to
MaxHist == 2        \* most entries of past
OpLines == 3        \* most lines of a buffer a single operation is called on
OpTextLen == 3      \* longest text a single insertText is called with
MaxDelta == 4       \* largest |delta| a single movePosition is called with
MaxMatches == 7     \* most matches a search finds

NL == "\n"
Chars == {"a", "b"}
Null == [null |-> TRUE]
Undefined == [undefined |-> TRUE]

\* a JavaScript number that is an integer, and NaN
Num(k) == [nan |-> FALSE, num |-> k]
NaN == [nan |-> TRUE, num |-> 0]
isNaN(x) == x.nan

Min(a, b) == IF a < b THEN a ELSE b
Max(a, b) == IF a > b THEN a ELSE b

StringsUpTo(alphabet, n) == UNION {[1..k -> alphabet] : k \in 0..n}

-----------------------------------------------------------------------------
(* JavaScript string primitives, as the source uses them *)

\* String.prototype.slice(a, b): negative indices count from the end, both
\* are clamped to the string, an empty range gives "".
sliceIndex(i, len) == IF i < 0 THEN Max(len + i, 0) ELSE Min(i, len)

slice(s, a, b) ==
    LET st == sliceIndex(a, Len(s))
        en == sliceIndex(b, Len(s))
    IN IF st >= en THEN <<>> ELSE SubSeq(s, st + 1, en)

sliceFrom(s, a) == slice(s, a, Len(s))

\* a split that finds no line break
split_whole(text) == <<text>>

\* text.split("\n"): the segments between line breaks, at least one.
RECURSIVE split(_)
split(text) ==
    IF \A i \in 1..Len(text) : text[i] # NL
    THEN <<text>>
    ELSE LET k == CHOOSE i \in 1..Len(text) :
                      text[i] = NL /\ \A j \in 1..(i - 1) : text[j] # NL
         IN <<SubSeq(text, 1, k - 1)>> \o split(SubSeq(text, k + 1, Len(text)))

-----------------------------------------------------------------------------
(* Lines of the text body *)

Pos(l, o) == [line |-> l, offset |-> o]

getLine(ls, lineNr) == ls[lineNr + 1]

getLineText(line) == line

\* The selection is live: a boundary (container c, offset o) of its range moves
\* when the nodes under it change. Replacing the children of line lineNr
\* ("set") puts a boundary inside that line at the start of the line; a new
\* line at lineNr ("insert") moves the lines from there on down; removing
\* line lineNr ("remove") moves a boundary inside it to textBody itself, which
\* is no line (container -1), and the lines after it up.
MoveBoundary(kind, lineNr, c, o) ==
    CASE kind = "set" -> IF c = lineNr THEN Pos(c, 0) ELSE Pos(c, o)
      [] kind = "insert" -> IF c >= lineNr THEN Pos(c + 1, o) ELSE Pos(c, o)
      [] kind = "remove" -> IF c = lineNr THEN Pos(-1, lineNr)
                            ELSE IF c > lineNr THEN Pos(c - 1, o)
                            ELSE Pos(c, o)

MoveBoundaries(selection, kind, lineNr) ==
    IF selection.rangeCount # 1
    THEN selection
    ELSE LET a == MoveBoundary(kind, lineNr, selection.startContainer,
                               selection.startOffset)
             b == MoveBoundary(kind, lineNr, selection.endContainer,
                               selection.endOffset)
         IN [rangeCount |-> 1, startContainer |-> a.line, startOffset |-> a.offset,
             endContainer |-> b.line, endOffset |-> b.offset]

\* line.textContent = text on the line at index lineNr of d = [lines, textNr,
\* sel]; an empty line holds a <br>, which textContent does not show
setLineText(d, lineNr, text) ==
    [d EXCEPT !.lines = [d.lines EXCEPT ![lineNr + 1] = text],
              !.sel = MoveBoundaries(d.sel, "set", lineNr)]

\* textBody.insertBefore(document.createElement("div"), ...): a new empty line
\* at index lineNr
insertBefore(d, lineNr) ==
    [d EXCEPT !.lines = SubSeq(d.lines, 1, lineNr) \o << <<>> >> \o
                        SubSeq(d.lines, lineNr + 1, Len(d.lines)),
              !.sel = MoveBoundaries(d.sel, "insert", lineNr)]

\* textBody.removeChild of the line at index lineNr
removeChild(d, lineNr) ==
    [d EXCEPT !.lines = SubSeq(d.lines, 1, lineNr) \o
                        SubSeq(d.lines, lineNr + 2, Len(d.lines)),
              !.sel = MoveBoundaries(d.sel, "remove", lineNr)]

ValidPos(ls) ==
    UNION {{Pos(l, o) : o \in 0..Len(ls[l + 1])} : l \in 0..(Len(ls) - 1)}

Before(p, q) == p.line < q.line \/ (p.line = q.line /\ p.offset < q.offset)
BeforeEq(p, q) == p = q \/ Before(p, q)

-----------------------------------------------------------------------------
(* TextEditor: positions and text *)

\* movePosition with a step onto the previous line that lands on its start
RECURSIVE moveLoop_lineStart(_, _, _, _, _)
moveLoop_lineStart(ls, lineNr, offset, absDelta, signDelta) ==
    LET lineLength == Len(getLineText(getLine(ls, lineNr)))
        remaining == IF signDelta > 0 THEN lineLength - offset ELSE offset
        step == Min(remaining, absDelta)
        offset2 == offset + signDelta * step
        absDelta2 == absDelta - step
        hasSibling == IF signDelta > 0 THEN lineNr + 1 < Len(ls) ELSE lineNr > 0
    IN IF absDelta2 = 0
       THEN [line |-> lineNr, offset |-> offset2, clamped |-> FALSE]
       ELSE IF ~hasSibling
       THEN [line |-> lineNr, offset |-> offset2, clamped |-> TRUE]
       ELSE moveLoop_lineStart(ls, lineNr + signDelta, 0, absDelta2 - 1, signDelta)

\* movePosition that crosses to the next line without taking one from delta
RECURSIVE moveLoop_freeCrossing(_, _, _, _, _)
moveLoop_freeCrossing(ls, lineNr, offset, absDelta, signDelta) ==
    LET lineLength == Len(getLineText(getLine(ls, lineNr)))
        remaining == IF signDelta > 0 THEN lineLength - offset ELSE offset
        step == Min(remaining, absDelta)
        offset2 == offset + signDelta * step
        absDelta2 == absDelta - step
        hasSibling == IF signDelta > 0 THEN lineNr + 1 < Len(ls) ELSE lineNr > 0
    IN IF absDelta2 = 0
       THEN [line |-> lineNr, offset |-> offset2, clamped |-> FALSE]
       ELSE IF ~hasSibling
       THEN [line |-> lineNr, offset |-> offset2, clamped |-> TRUE]
       ELSE LET nextLength == Len(getLineText(getLine(ls, lineNr + signDelta)))
            IN moveLoop_freeCrossing(ls, lineNr + signDelta,
                                     IF signDelta > 0 THEN 0 ELSE nextLength,
                                     absDelta2, signDelta)

\* The while loop of movePosition; clamped tells that it left through the
\* missing sibling with delta still to go.
RECURSIVE moveLoop(_, _, _, _, _)
moveLoop(ls, lineNr, offset, absDelta, signDelta) ==
    LET lineLength == Len(getLineText(getLine(ls, lineNr)))
        remaining == IF signDelta > 0 THEN lineLength - offset ELSE offset
        step == Min(remaining, absDelta)
        offset2 == offset + signDelta * step
        absDelta2 == absDelta - step
        hasSibling == IF signDelta > 0 THEN lineNr + 1 < Len(ls) ELSE lineNr > 0
    IN IF absDelta2 = 0
       THEN [line |-> lineNr, offset |-> offset2, clamped |-> FALSE]
       ELSE IF ~hasSibling
       THEN [line |-> lineNr, offset |-> offset2, clamped |-> TRUE]
       ELSE LET nextLength == Len(getLineText(getLine(ls, lineNr + signDelta)))
            IN moveLoop(ls, lineNr + signDelta,
                        IF signDelta > 0 THEN 0 ELSE nextLength,
                        absDelta2 - 1, signDelta)

moveRun(ls, position, delta) ==
    moveLoop(ls, position.line, position.offset,
             IF delta < 0 THEN -delta ELSE delta,
             IF delta >= 0 THEN 1 ELSE -1)

movePosition(ls, position, delta) ==
    LET r == moveRun(ls, position, delta) IN Pos(r.line, r.offset)

moveClamped(ls, position, delta) == moveRun(ls, position, delta).clamped

\* getText that puts no line break between the lines
RECURSIVE getTextLoop_noBreak(_, _, _, _, _)
getTextLoop_noBreak(ls, from, to, lineNr, result) ==
    IF lineNr > to.line
    THEN result
    ELSE LET lineText == getLineText(getLine(ls, lineNr))
             part == IF from.line = to.line THEN slice(lineText, from.offset, to.offset)
                     ELSE IF lineNr = from.line THEN sliceFrom(lineText, from.offset)
                     ELSE IF lineNr = to.line THEN slice(lineText, 0, to.offset)
                     ELSE lineText
         IN getTextLoop_noBreak(ls, from, to, lineNr + 1, result \o part)

RECURSIVE getTextLoop(_, _, _, _, _)
getTextLoop(ls, from, to, lineNr, result) ==
    IF lineNr > to.line
    THEN result
    ELSE LET sep == IF lineNr > from.line THEN <<NL>> ELSE <<>>
             lineText == getLineText(getLine(ls, lineNr))
             part == IF from.line = to.line THEN slice(lineText, from.offset, to.offset)
                     ELSE IF lineNr = from.line THEN sliceFrom(lineText, from.offset)
                     ELSE IF lineNr = to.line THEN slice(lineText, 0, to.offset)
                     ELSE lineText
         IN getTextLoop(ls, from, to, lineNr + 1, result \o sep \o part)

getText(ls, from, to) == getTextLoop(ls, from, to, from.line, <<>>)

\* insertText whose last new line does not get the rest of the original line
RECURSIVE insertLoop_dropTail(_, _, _, _, _)
insertLoop_dropTail(d, position, textLines, originalText, i) ==
    IF i >= Len(textLines)
    THEN d
    ELSE LET lineNr == position.line + i
             d1 == IF i > 0
                   THEN [insertBefore(d, lineNr) EXCEPT
                            !.textNr = Append(d.textNr, (Len(d.lines) + 1) + 1)]
                   ELSE d
             newText == IF i = 0
                        THEN slice(originalText, 0, position.offset) \o textLines[i + 1]
                        ELSE textLines[i + 1]
         IN insertLoop_dropTail(setLineText(d1, lineNr, newText),
                                position, textLines, originalText, i + 1)

\* The for loop of insertText for a text of several lines: d is the DOM
\* [lines, textNr, sel] so far, i the loop index.
RECURSIVE insertLoop(_, _, _, _, _)
insertLoop(d, position, textLines, originalText, i) ==
    IF i >= Len(textLines)
    THEN d
    ELSE LET lineNr == position.line + i
             d1 == IF i > 0
                   THEN [insertBefore(d, lineNr) EXCEPT
                            !.textNr = Append(d.textNr, (Len(d.lines) + 1) + 1)]
                   ELSE d
             newText == IF i = 0
                        THEN slice(originalText, 0, position.offset) \o textLines[i + 1]
                        ELSE IF i = Len(textLines) - 1
                        THEN textLines[i + 1] \o sliceFrom(originalText, position.offset)
                        ELSE textLines[i + 1]
         IN insertLoop(setLineText(d1, lineNr, newText),
                       position, textLines, originalText, i + 1)

\* insertText: the new DOM and the returned position
insertText(d, position, text) ==
    LET textLines == split(text)
        originalText == getLineText(getLine(d.lines, position.line))
    IN IF Len(textLines) = 1
       THEN [dom |-> setLineText(d, position.line,
                          slice(originalText, 0, position.offset) \o textLines[1] \o
                          sliceFrom(originalText, position.offset)),
             ret |-> Pos(position.line, position.offset + Len(textLines[1]))]
       ELSE [dom |-> insertLoop(d, position, textLines, originalText, 0),
             ret |-> Pos(position.line + Len(textLines) - 1,
                         Len(textLines[Len(textLines)]))]

\* The for loop of removeText: the line after firstLine and the last gutter
\* cell go, once per line of the range.
RECURSIVE removeLoop(_, _, _, _)
removeLoop(d, from, to, lineNr) ==
    IF lineNr > to.line
    THEN d
    ELSE removeLoop([removeChild(d, from.line + 1) EXCEPT
                        !.textNr = SubSeq(d.textNr, 1, Len(d.textNr) - 1)],
                    from, to, lineNr + 1)

\* removeText that keeps nothing of the last line of the range
removeText_noSuffix(d, from, to) ==
    LET newText == slice(getLineText(getLine(d.lines, from.line)), 0, from.offset)
    IN removeLoop(setLineText(d, from.line, newText), from, to, from.line + 1)

\* removeText with a loop that starts one line late
removeText_lateLoop(d, from, to) ==
    LET newText == slice(getLineText(getLine(d.lines, from.line)), 0, from.offset) \o
                   sliceFrom(getLineText(getLine(d.lines, to.line)), to.offset)
    IN removeLoop(setLineText(d, from.line, newText), from, to, from.line + 2)

\* removeText that also drops the first line when nothing is left of it
removeText_dropEmpty(d, from, to) ==
    LET newText == slice(getLineText(getLine(d.lines, from.line)), 0, from.offset) \o
                   sliceFrom(getLineText(getLine(d.lines, to.line)), to.offset)
        r == removeLoop(setLineText(d, from.line, newText), from, to, from.line + 1)
    IN IF newText = <<>>
       THEN [removeChild(r, from.line) EXCEPT
                !.textNr = SubSeq(r.textNr, 1, Len(r.textNr) - 1)]
       ELSE r

removeText(d, from, to) ==
    LET firstLine == getLine(d.lines, from.line)
        lastLine == getLine(d.lines, to.line)
        newText == slice(getLineText(firstLine), 0, from.offset) \o
                   sliceFrom(getLineText(lastLine), to.offset)
    IN removeLoop(setLineText(d, from.line, newText), from, to, from.line + 1)

-----------------------------------------------------------------------------
(* Changes *)

Change(type, text, position) == [type |-> type, text |-> text, position |-> position]

\* doChange that finds the end of a removal on the line it starts on
doChange_sameLine(d, change) ==
    IF change.type = "insertText"
    THEN insertText(d, change.position, change.text).dom
    ELSE removeText(d, change.position,
                    Pos(change.position.line, change.position.offset + Len(change.text)))

doChange(d, change) ==
    IF change.type = "insertText"
    THEN insertText(d, change.position, change.text).dom
    ELSE IF change.type = "removeText"
    THEN LET toPosition == movePosition(d.lines, change.position, Len(change.text))
         IN removeText(d, change.position, toPosition)
    ELSE d

invertChange(change) ==
    IF change.type = "insertText"
    THEN Change("removeText", change.text, change.position)
    ELSE IF change.type = "removeText"
    THEN Change("insertText", change.text, change.position)
    ELSE Null

undoChange(d, change) == doChange(d, invertChange(change))

-----------------------------------------------------------------------------
(* class History, on h = [past, future]; undo and redo also give the value
   they return *)

\* push that keeps future
History_push_keepFuture(h, change) == [past |-> Append(h.past, change), future |-> h.future]

History_push(h, change) == [past |-> Append(h.past, change), future |-> <<>>]

\* canUndo that takes a past of one entry for empty
canUndo_moreThanOne(h) == Len(h.past) > 1

canUndo(h) == Len(h.past) > 0

canRedo(h) == Len(h.future) > 0

\* undo that keeps the inverse of the popped change for redo
History_undo_inverted(h) ==
    IF Len(h.past) = 0
    THEN [h |-> h, ret |-> Null]
    ELSE LET lastChange == h.past[Len(h.past)]
         IN [h |-> [past |-> SubSeq(h.past, 1, Len(h.past) - 1),
                    future |-> Append(h.future, invertChange(lastChange))],
             ret |-> lastChange]

\* undo without the check for an empty past: pop() gives undefined
History_undo_noCheck(h) ==
    IF Len(h.past) = 0
    THEN [h |-> [past |-> <<>>, future |-> Append(h.future, Null)], ret |-> Null]
    ELSE LET lastChange == h.past[Len(h.past)]
         IN [h |-> [past |-> SubSeq(h.past, 1, Len(h.past) - 1),
                    future |-> Append(h.future, lastChange)],
             ret |-> lastChange]

History_undo(h) ==
    IF Len(h.past) = 0
    THEN [h |-> h, ret |-> Null]
    ELSE LET lastChange == h.past[Len(h.past)]
         IN [h |-> [past |-> SubSeq(h.past, 1, Len(h.past) - 1),
                    future |-> Append(h.future, lastChange)],
             ret |-> lastChange]

\* redo that takes the oldest entry of future (shift for pop)
History_redo_oldest(h) ==
    IF Len(h.future) = 0
    THEN [h |-> h, ret |-> Null]
    ELSE LET nextChange == h.future[1]
         IN [h |-> [past |-> Append(h.past, nextChange),
                    future |-> SubSeq(h.future, 2, Len(h.future))],
             ret |-> nextChange]

History_redo(h) ==
    IF Len(h.future) = 0
    THEN [h |-> h, ret |-> Null]
    ELSE LET nextChange == h.future[Len(h.future)]
         IN [h |-> [past |-> Append(h.past, nextChange),
                    future |-> SubSeq(h.future, 1, Len(h.future) - 1)],
             ret |-> nextChange]

-----------------------------------------------------------------------------
(* Selection of the host *)

Range(sc, so, ec, eo) ==
    [rangeCount |-> 1, startContainer |-> sc, startOffset |-> so,
     endContainer |-> ec, endOffset |-> eo]

Caret(p) == Range(p.line, p.offset, p.line, p.offset)

\* no range, or more than one (the bounds of range 0 are then never read)
NoRange(n) ==
    [rangeCount |-> n, startContainer |-> 0, startOffset |-> 0,
     endContainer |-> 0, endOffset |-> 0]

\* what the host can report: one range between two positions of the text, in
\* document order, or a selection of zero or of two ranges
Selections(ls) ==
    {Range(pq[1].line, pq[1].offset, pq[2].line, pq[2].offset) :
        pq \in {x \in ValidPos(ls) \X ValidPos(ls) : BeforeEq(x[1], x[2])}}
    \cup {NoRange(0), NoRange(2)}

\* the line of the container is looked up among the children of textBody
indexOf(ls, container) == IF container \in 0..(Len(ls) - 1) THEN container ELSE -1

getPosition(ls, container, offset) == Pos(indexOf(ls, container), offset)

\* range.setStart, range.setEnd, selection.addRange
placeCursorAt(start) == Caret(start)

-----------------------------------------------------------------------------
(* TextEditor handlers, on e = [lines, textNr, past, future, sel, log] *)

Dom(e) == [lines |-> e.lines, textNr |-> e.textNr, sel |-> e.sel]
Hist(e) == [past |-> e.past, future |-> e.future]

WithDom(e, d) == [e EXCEPT !.lines = d.lines, !.textNr = d.textNr, !.sel = d.sel]
WithHist(e, h) == [e EXCEPT !.past = h.past, !.future = h.future]

LogMultiRange == "Multiple selection ranges, not supported"
LogNoText == "No text to remove"

\* undo that takes the change from the history and does not replay it
undo_noReplay(e) ==
    IF ~canUndo(Hist(e))
    THEN e
    ELSE WithHist(e, History_undo(Hist(e)).h)

undo(e) ==
    IF ~canUndo(Hist(e))
    THEN e
    ELSE LET r == History_undo(Hist(e))
         IN WithDom(WithHist(e, r.h), undoChange(Dom(e), r.ret))

redo(e) ==
    IF ~canRedo(Hist(e))
    THEN e
    ELSE LET r == History_redo(Hist(e))
         IN WithDom(WithHist(e, r.h), doChange(Dom(e), r.ret))

\* the range of a removeTextAction that takes forward for backward
removeTarget_modesSwapped(ls, selection, mode) ==
    LET startPosition == getPosition(ls, selection.startContainer, selection.startOffset)
        endPosition == getPosition(ls, selection.endContainer, selection.endOffset)
        isSelected == selection.startContainer # selection.endContainer \/
                      selection.startOffset # selection.endOffset
    IN [from |-> IF isSelected THEN startPosition
                 ELSE IF mode = "backward" THEN startPosition
                 ELSE movePosition(ls, startPosition, -1),
        to |-> IF isSelected THEN endPosition
               ELSE IF mode = "backward" THEN movePosition(ls, endPosition, 1)
               ELSE endPosition]

\* the range removeTextAction removes
removeTarget(ls, selection, mode) ==
    LET startPosition == getPosition(ls, selection.startContainer, selection.startOffset)
        endPosition == getPosition(ls, selection.endContainer, selection.endOffset)
        isSelected == selection.startContainer # selection.endContainer \/
                      selection.startOffset # selection.endOffset
    IN [from |-> IF isSelected THEN startPosition
                 ELSE IF mode = "forward" THEN startPosition
                 ELSE movePosition(ls, startPosition, -1),
        to |-> IF isSelected THEN endPosition
               ELSE IF mode = "forward" THEN movePosition(ls, endPosition, 1)
               ELSE endPosition]

\* removeTextAction without the rangeCount check
removeTextAction_anyRangeCount(e, mode) ==
    LET t == removeTarget(e.lines, e.sel, mode)
    IN IF t.from.line = t.to.line /\ t.from.offset = t.to.offset
       THEN [e EXCEPT !.log = LogNoText]
       ELSE LET removedText == getText(e.lines, t.from, t.to)
                d == removeText(Dom(e), t.from, t.to)
                h == History_push(Hist(e), Change("removeText", removedText, t.from))
            IN [WithHist(WithDom(e, d), h) EXCEPT !.sel = placeCursorAt(t.from)]

\* removeTextAction without the check for an empty range
removeTextAction_emptyRange(e, mode) ==
    IF e.sel.rangeCount # 1
    THEN [e EXCEPT !.log = LogMultiRange]
    ELSE LET t == removeTarget(e.lines, e.sel, mode)
             removedText == getText(e.lines, t.from, t.to)
             d == removeText(Dom(e), t.from, t.to)
             h == History_push(Hist(e), Change("removeText", removedText, t.from))
         IN [WithHist(WithDom(e, d), h) EXCEPT !.sel = placeCursorAt(t.from)]

removeTextAction(e, mode) ==
    IF e.sel.rangeCount # 1
    THEN [e EXCEPT !.log = LogMultiRange]
    ELSE LET t == removeTarget(e.lines, e.sel, mode)
         IN IF t.from.line = t.to.line /\ t.from.offset = t.to.offset
            THEN [e EXCEPT !.log = LogNoText]
            ELSE LET removedText == getText(e.lines, t.from, t.to)
                     d == removeText(Dom(e), t.from, t.to)
                     h == History_push(Hist(e),
                                       Change("removeText", removedText, t.from))
                 IN [WithHist(WithDom(e, d), h) EXCEPT !.sel = placeCursorAt(t.from)]

\* insertTextAction that leaves the caret where the text was inserted
insertTextAction_caretAtStart(e, text) ==
    IF e.sel.rangeCount # 1
    THEN [e EXCEPT !.log = LogMultiRange]
    ELSE LET position == getPosition(e.lines, e.sel.startContainer, e.sel.startOffset)
             e1 == IF e.sel.startContainer # e.sel.endContainer \/
                      e.sel.startOffset # e.sel.endOffset
                   THEN removeTextAction(e, "backward")
                   ELSE e
             r == insertText(Dom(e1), position, text)
             h == History_push(Hist(e1), Change("insertText", text, position))
         IN [WithHist(WithDom(e1, r.dom), h) EXCEPT !.sel = placeCursorAt(position)]

\* insertTextAction that inserts at the end of the selection it replaced
insertTextAction_atEnd(e, text) ==
    IF e.sel.rangeCount # 1
    THEN [e EXCEPT !.log = LogMultiRange]
    ELSE LET position == getPosition(e.lines, e.sel.endContainer, e.sel.endOffset)
             e1 == IF e.sel.startContainer # e.sel.endContainer \/
                      e.sel.startOffset # e.sel.endOffset
                   THEN removeTextAction(e, "backward")
                   ELSE e
             r == insertText(Dom(e1), position, text)
             h == History_push(Hist(e1), Change("insertText", text, position))
         IN [WithHist(WithDom(e1, r.dom), h) EXCEPT !.sel = placeCursorAt(r.ret)]

insertTextAction(e, text) ==
    IF e.sel.rangeCount # 1
    THEN [e EXCEPT !.log = LogMultiRange]
    ELSE LET position == getPosition(e.lines, e.sel.startContainer, e.sel.startOffset)
             e1 == IF e.sel.startContainer # e.sel.endContainer \/
                      e.sel.startOffset # e.sel.endOffset
                   THEN removeTextAction(e, "backward")
                   ELSE e
             r == insertText(Dom(e1), position, text)
             h == History_push(Hist(e1), Change("insertText", text, position))
         IN [WithHist(WithDom(e1, r.dom), h) EXCEPT !.sel = placeCursorAt(r.ret)]

-----------------------------------------------------------------------------
(* The editor as a state machine: one action per handler of beforeinput and
   paste.  A handler reads the selection the host holds when the event
   arrives, which is any selection of the current text. *)

\* the texts of insertText, insertParagraph and paste events
Texts ==
    {<<>>, <<"b">>, <<NL>>}

\* the documents the editor is opened on
InitBuffers ==
    {<< <<>> >>, << <<"a", "b">> >>, << <<"a">>, <<"b">> >>}

Labels(n) == [i \in 1..n |-> i]

EdAt(selection) ==
    [lines |-> lines, textNr |-> textNr, past |-> past, future |-> future,
     sel |-> selection, log |-> ""]

SetEd(e) ==
    /\ lines' = e.lines
    /\ textNr' = e.textNr
    /\ past' = e.past
    /\ future' = e.future
    /\ sel' = e.sel

\* the model stops growing at its bounds
Fits(e) ==
    /\ Len(e.lines) <= MaxLines
    /\ \A i \in 1..Len(e.lines) : Len(e.lines[i]) <= MaxLineLen
    /\ Len(e.past) <= MaxHist

\* what a handler did: the selection it read and the input it worked on (none
\* when it returned at the rangeCount check), what it logged, the
\* pushes it made (the entries past gained), the entries of future a push
\* dropped, and the entries undo or redo took from the history
Observed(kind, selection, input, e) ==
    LET pushed == IF kind \in {"insertText", "removeText"}
                  THEN Len(e.past) - Len(past) ELSE 0
    IN [kind |-> kind, sel |-> selection,
        input |-> IF e.log = LogMultiRange THEN "" ELSE input, log |-> e.log,
        pushed |-> pushed,
        cleared |-> IF pushed > 0 THEN Len(future) ELSE 0,
        replayed |-> IF kind = "undo" THEN Len(past) - Len(e.past)
                     ELSE IF kind = "redo" THEN Len(future) - Len(e.future)
                     ELSE 0]

Track(kind, selection, input, e) ==
    \E o \in {Observed(kind, selection, input, e)} :
        /\ lastOp' = o
        /\ IF o.pushed > 0
           THEN /\ snap' = [lines |-> e.lines, past |-> e.past]
                /\ low' = Len(e.past)
                /\ undone' = 0
           ELSE /\ snap' = snap
                /\ low' = Min(low, Len(e.past))
                /\ undone' = IF kind = "undo" THEN undone + o.replayed
                              ELSE IF kind = "redo" THEN undone - o.replayed
                              ELSE undone

Idle == pc = "editor"

InsertTextAction ==
    /\ Idle
    /\ \E selection \in Selections(lines), text \in Texts :
         \E e \in {insertTextAction(EdAt(selection), text)} :
            Fits(e) /\ SetEd(e) /\ Track("insertText", selection, text, e)
    /\ UNCHANGED <<pc, arg, ret, orig, currentIndex, results, isNext>>

RemoveTextAction ==
    /\ Idle
    /\ \E selection \in Selections(lines), mode \in {"forward", "backward"} :
         \E e \in {removeTextAction(EdAt(selection), mode)} :
            Fits(e) /\ SetEd(e) /\ Track("removeText", selection, mode, e)
    /\ UNCHANGED <<pc, arg, ret, orig, currentIndex, results, isNext>>

\* undo and redo read no selection and place no caret: the selection the last
\* handler left is moved only by the replay replacing the nodes under it
Undo ==
    /\ Idle
    /\ \E e \in {undo(EdAt(sel))} :
         SetEd(e) /\ Track("undo", NoRange(0), "", e)
    /\ UNCHANGED <<pc, arg, ret, orig, currentIndex, results, isNext>>

Redo ==
    /\ Idle
    /\ \E e \in {redo(EdAt(sel))} :
         SetEd(e) /\ Track("redo", NoRange(0), "", e)
    /\ UNCHANGED <<pc, arg, ret, orig, currentIndex, results, isNext>>

Init ==
    /\ lines \in InitBuffers
    /\ textNr = Labels(Len(lines))
    /\ past = <<>>
    /\ future = <<>>
    /\ sel = NoRange(0)
    /\ lastOp = [kind |-> "none", sel |-> sel, input |-> "", log |-> "",
                 pushed |-> 0, cleared |-> 0, replayed |-> 0]
    /\ snap = [lines |-> lines, past |-> <<>>]
    /\ low = 0
    /\ undone = 0
    /\ pc = "editor"
    /\ arg = Null
    /\ ret = Null
    /\ orig = lines
    /\ currentIndex = NaN
    /\ results = Undefined
    /\ isNext = Undefined

Next ==
    \/ InsertTextAction
    \/ RemoveTextAction
    \/ Undo
    \/ Redo

Spec == Init /\ [][Next]_vars

-----------------------------------------------------------------------------
(* Single operations of TextEditor, called on a buffer by a caller that
   records what it passed and what came back *)

OpLineTexts == {<<>>, <<"a">>, <<"a", "b">>}

OpBuffers == UNION {[1..k -> OpLineTexts] : k \in 1..OpLines}

OpTexts == StringsUpTo({"b", NL}, OpTextLen)

Dom0 == [lines |-> lines, textNr |-> textNr, sel |-> sel]

SetDom(d) == lines' = d.lines /\ textNr' = d.textNr /\ sel' = d.sel

\* the Changes insertTextAction and removeTextAction build on the buffer
ProducedChanges(d) ==
    LET E(selection) ==
            [lines |-> d.lines, textNr |-> d.textNr, past |-> <<>>,
             future |-> <<>>, sel |-> selection, log |-> ""]
        inserted == {insertTextAction(E(Caret(p)), t) :
                        p \in ValidPos(d.lines), t \in OpTexts}
        removed == {removeTextAction(E(selection), mode) :
                        selection \in Selections(d.lines),
                        mode \in {"forward", "backward"}}
    IN {e.past[Len(e.past)] : e \in {x \in inserted \cup removed : Len(x.past) > 0}}

OpsUnchanged ==
    UNCHANGED <<past, future, lastOp, snap, low, undone, orig, currentIndex, results,
                isNext>>

CallMovePosition ==
    /\ pc = "call"
    /\ \E position \in ValidPos(lines), delta \in (-MaxDelta)..MaxDelta :
         /\ arg' = [position |-> position, delta |-> delta]
         /\ ret' = [value |-> movePosition(lines, position, delta),
                    clamped |-> moveClamped(lines, position, delta)]
    /\ pc' = "moved"
    /\ UNCHANGED <<lines, textNr, sel>>
    /\ OpsUnchanged

CallMoveBack ==
    /\ pc = "moved"
    /\ arg' = [arg EXCEPT !.delta = -arg.delta] @@ [first |-> arg.delta, via |-> ret.value]
    /\ ret' = [value |-> movePosition(lines, ret.value, -arg.delta),
               clamped |-> ret.clamped \/ moveClamped(lines, ret.value, -arg.delta)]
    /\ pc' = "movedBack"
    /\ UNCHANGED <<lines, textNr, sel>>
    /\ OpsUnchanged

CallInsertText ==
    /\ pc = "call"
    /\ \E position \in ValidPos(lines), text \in OpTexts :
         \E r \in {insertText(Dom0, position, text)} :
            /\ SetDom(r.dom)
            /\ arg' = [position |-> position, text |-> text]
            /\ ret' = [value |-> r.ret]
    /\ pc' = "inserted"
    /\ OpsUnchanged

CallRemoveText ==
    /\ pc = "inserted"
    /\ SetDom(removeText(Dom0, arg.position, ret.value))
    /\ pc' = "removed"
    /\ UNCHANGED <<arg, ret>>
    /\ OpsUnchanged

CallDoChange ==
    /\ pc = "call"
    /\ \E change \in ProducedChanges(Dom0) :
         /\ SetDom(doChange(Dom0, change))
         /\ arg' = [change |-> change]
    /\ pc' = "changed"
    /\ UNCHANGED ret
    /\ OpsUnchanged

CallUndoChange ==
    /\ pc = "changed"
    /\ SetDom(undoChange(Dom0, arg.change))
    /\ pc' = "reverted"
    /\ UNCHANGED <<arg, ret>>
    /\ OpsUnchanged

\* a call that ran to its return statement: the methods have no throw
Returned(value) == [value |-> value, error |-> "none"]

\* the containers a caller can pass to getPosition: a line of the text, or a
\* node that is no child of textBody (-1 and Len(lines) stand for two of them)
Containers(ls) == (-1)..Len(ls)

CallGetText ==
    /\ pc = "call"
    /\ \E from \in ValidPos(lines), to \in ValidPos(lines) :
         /\ arg' = [from |-> from, to |-> to]
         /\ ret' = Returned(getText(lines, from, to))
    /\ pc' = "gotText"
    /\ UNCHANGED <<lines, textNr, sel>>
    /\ OpsUnchanged

CallGetPosition ==
    /\ pc = "call"
    /\ \E container \in Containers(lines), offset \in 0..MaxLineLen :
         /\ arg' = [container |-> container, offset |-> offset]
         /\ ret' = Returned(getPosition(lines, container, offset))
    /\ pc' = "resolved"
    /\ UNCHANGED <<lines, textNr, sel>>
    /\ OpsUnchanged

CallRemoveRange ==
    /\ pc = "call"
    /\ \E from \in ValidPos(lines), to \in ValidPos(lines) :
         /\ BeforeEq(from, to)
         /\ SetDom(removeText(Dom0, from, to))
         /\ arg' = [from |-> from, to |-> to]
    /\ pc' = "removedRange"
    /\ UNCHANGED ret
    /\ OpsUnchanged

OpsInit ==
    /\ lines \in OpBuffers
    /\ textNr = Labels(Len(lines))
    /\ past = <<>>
    /\ future = <<>>
    /\ sel = NoRange(0)
    /\ lastOp = [kind |-> "none", sel |-> sel, input |-> "", log |-> "",
                 pushed |-> 0, cleared |-> 0, replayed |-> 0]
    /\ snap = [lines |-> lines, past |-> <<>>]
    /\ low = 0
    /\ undone = 0
    /\ pc = "call"
    /\ arg = Null
    /\ ret = Null
    /\ orig = lines
    /\ currentIndex = NaN
    /\ results = Undefined
    /\ isNext = Undefined

OpsNext ==
    \/ CallMovePosition
    \/ CallMoveBack
    \/ CallInsertText
    \/ CallRemoveText
    \/ CallDoChange
    \/ CallUndoChange
    \/ CallGetText
    \/ CallGetPosition
    \/ CallRemoveRange

OpsSpec == OpsInit /\ [][OpsNext]_vars

-----------------------------------------------------------------------------
(* Search: the module state currentIndex, results, isNext.  results is the
   live collection of the <mark> elements of the document; an element is its
   className, the sequence of the pieces it was built from. *)

className == " current"

\* what instance.mark gives each match: <mark class="highlight">
Marked == <<"highlight">>

\* s.replace(piece, ""): the first occurrence goes
replaceFirst(cls, piece) ==
    IF \A i \in 1..Len(cls) : cls[i] # piece
    THEN cls
    ELSE LET k == CHOOSE i \in 1..Len(cls) :
                      cls[i] = piece /\ \A j \in 1..(i - 1) : cls[j] # piece
         IN SubSeq(cls, 1, k - 1) \o SubSeq(cls, k + 1, Len(cls))

\* results[i] is an element, not undefined
Defined(rs, i) == i \in 0..(Len(rs) - 1)

SearchState == [currentIndex |-> currentIndex, results |-> results,
                isNext |-> isNext, error |-> "none"]

\* the two branches of jumpTo: the marker leaves the neighbour the jump came
\* from, currentIndex wraps, the marker goes to results[currentIndex]; reading
\* className of undefined is a TypeError that ends the call where it stands
jumpBranch(s, neighbour, wrapped) ==
    IF ~Defined(s.results, neighbour)
    THEN [s EXCEPT !.error = "TypeError"]
    ELSE LET rs == [s.results EXCEPT
                       ![neighbour + 1] = replaceFirst(@, className)]
             s1 == [s EXCEPT !.results = rs, !.currentIndex = Num(wrapped)]
         IN IF ~Defined(rs, wrapped)
            THEN [s1 EXCEPT !.error = "TypeError"]
            ELSE [s1 EXCEPT !.results[wrapped + 1] = Append(@, className)]

\* jumpTo that wraps one step late
jumpTo_lateWrap(s) ==
    LET i == s.currentIndex.num
        n == Len(s.results)
    IN IF s.isNext = TRUE
       THEN jumpBranch(s, i - 1, IF i > n THEN 0 ELSE i)
       ELSE jumpBranch(s, i + 1, IF i < 0 THEN n - 1 ELSE i)

jumpTo(s) ==
    LET i == s.currentIndex.num
        n == Len(s.results)
    IN IF s.isNext = TRUE
       THEN jumpBranch(s, i - 1, IF i > n - 1 THEN 0 ELSE i)
       ELSE jumpBranch(s, i + 1, IF i < 0 THEN n - 1 ELSE i)

\* search(keyword) on a document in which the keyword has n matches
search(s, n) ==
    LET rs == [i \in 1..n |-> Marked]
    IN [s EXCEPT !.currentIndex = Num(0),
                 !.results = IF Defined(rs, 0)
                             THEN [rs EXCEPT ![1] = Append(@, className)]
                             ELSE rs]

searchNext(s) ==
    IF ~isNaN(s.currentIndex) /\ Len(s.results) > 0
    THEN jumpTo([s EXCEPT !.isNext = TRUE,
                          !.currentIndex = Num(s.currentIndex.num + 1)])
    ELSE s

searchPrevious(s) ==
    IF ~isNaN(s.currentIndex) /\ Len(s.results) > 0
    THEN jumpTo([s EXCEPT !.isNext = FALSE,
                          !.currentIndex = Num(s.currentIndex.num - 1)])
    ELSE s

\* resetSearch: instance.unmark() takes every <mark> out of the document, and
\* with it out of the live collection; results is still undefined when no
\* search has assigned it (the search that does also sets currentIndex)
resetSearch(s) ==
    IF isNaN(s.currentIndex) THEN s ELSE [s EXCEPT !.results = <<>>]

SetSearch(call, s) ==
    /\ currentIndex' = s.currentIndex
    /\ results' = s.results
    /\ isNext' = s.isNext
    /\ arg' = [call |-> call]
    /\ ret' = [error |-> s.error]
    /\ UNCHANGED <<lines, textNr, past, future, sel, lastOp, snap, low, undone, pc,
                   orig>>

Search ==
    /\ pc = "search"
    /\ \E n \in 0..MaxMatches : SetSearch("search", search(SearchState, n))

SearchNext ==
    /\ pc = "search"
    /\ SetSearch("searchNext", searchNext(SearchState))

SearchPrevious ==
    /\ pc = "search"
    /\ SetSearch("searchPrevious", searchPrevious(SearchState))

ResetSearch ==
    /\ pc = "search"
    /\ SetSearch("resetSearch", resetSearch(SearchState))

SearchInit ==
    /\ lines = << <<>> >>
    /\ textNr = Labels(Len(lines))
    /\ past = <<>>
    /\ future = <<>>
    /\ sel = NoRange(0)
    /\ lastOp = [kind |-> "none", sel |-> sel, input |-> "", log |-> "",
                 pushed |-> 0, cleared |-> 0, replayed |-> 0]
    /\ snap = [lines |-> lines, past |-> <<>>]
    /\ low = 0
    /\ undone = 0
    /\ pc = "search"
    /\ arg = [call |-> "none"]
    /\ ret = [error |-> "none"]
    /\ orig = lines
    /\ currentIndex = NaN
    /\ results = Undefined
    /\ isNext = Undefined

SearchSpecNext ==
    \/ Search
    \/ SearchNext
    \/ SearchPrevious
    \/ ResetSearch

SearchSpec == SearchInit /\ [][SearchSpecNext]_vars

-----------------------------------------------------------------------------
(* Claims about single operations *)

\* C1: a Change the handlers build on a buffer, applied with doChange and then
\* undone with doChange(invertChange(C)), leaves every line as it was.
RoundTrip == pc = "reverted" => lines = orig

RoundTripWitness ==
    /\ pc = "reverted"
    /\ arg.change.type = "removeText"
    /\ \E i \in 1..Len(arg.change.text) : arg.change.text[i] = NL
    /\ lines = orig

\* C9: when neither movePosition(p, d) nor the move back by -d is clamped at
\* the start or the end of the buffer, the move back returns p.
MoveInverse == (pc = "movedBack" /\ ~ret.clamped) => ret.value = arg.position

MoveInverseWitness ==
    /\ pc = "movedBack"
    /\ ~ret.clamped
    /\ arg.first < -1
    /\ arg.via.line < arg.position.line
    /\ ret.value = arg.position

\* C10: insertText(p, t) followed by removeText(p, q), q the position the
\* insert returned, leaves every line as it was before the insert.
InsertRemoveInverse == pc = "removed" => lines = orig

InsertRemoveInverseWitness ==
    /\ pc = "removed"
    /\ Len(split(arg.text)) > 2
    /\ arg.position.offset > 0
    /\ arg.position.offset < Len(orig[arg.position.line + 1])
    /\ lines = orig

-----------------------------------------------------------------------------
(* Claims about the editor *)

Reverse(q) == [i \in 1..Len(q) |-> q[Len(q) + 1 - i]]

\* the whole text: the lines joined by line breaks
RECURSIVE Flat(_)
Flat(ls) ==
    IF Len(ls) = 1 THEN ls[1]
    ELSE ls[1] \o <<NL>> \o Flat(SubSeq(ls, 2, Len(ls)))

\* the number of characters of the whole text before a position
RECURSIVE Index(_, _)
Index(ls, p) ==
    IF p.line = 0 THEN p.offset
    ELSE Len(ls[1]) + 1 + Index(SubSeq(ls, 2, Len(ls)), Pos(p.line - 1, p.offset))

EdNext ==
    [lines |-> lines', textNr |-> textNr', past |-> past', future |-> future',
     sel |-> sel', log |-> ""]

SelStart(selection) == Pos(selection.startContainer, selection.startOffset)
SelEnd(selection) == Pos(selection.endContainer, selection.endOffset)
Collapsed(selection) == SelStart(selection) = SelEnd(selection)

\* C2: the changes pushed stay in the history in push order, whatever was
\* undone (redo takes the earliest undone one next), and once everything
\* undone is redone the buffer is the buffer right after the last push.
UndoRedoDuality ==
    /\ past \o Reverse(future) = snap.past
    /\ future = <<>> => lines = snap.lines

UndoRedoDualityWitness ==
    /\ lastOp.kind = "redo"
    /\ lastOp.replayed = 1
    /\ future = <<>>
    /\ Len(past) >= 2
    /\ low = 0
    /\ lines = snap.lines

\* C3: every push leaves future empty, and a Redo right after a handler that
\* pushed changes neither the buffer nor the history.
BranchDiscard ==
    [][/\ lastOp'.pushed > 0 => (future' = <<>> /\ ~canRedo(Hist(EdNext)))
       /\ (lastOp.pushed > 0 /\ lastOp'.kind = "redo") =>
              UNCHANGED <<lines, textNr, past, future>>]_vars

BranchDiscardWitness ==
    /\ lastOp.pushed > 0
    /\ lastOp.cleared > 0
    /\ future = <<>>

\* C4: an insert over a selection from s to e pushes Remove(text of [s, e], s)
\* and then Insert(text, s); the text is the old one with the selected range
\* replaced; one undo gives the old text without the range, a second one the
\* old buffer.
SelectionTypeOver ==
    [][(/\ lastOp'.kind = "insertText"
        /\ lastOp'.sel.rangeCount = 1
        /\ ~Collapsed(lastOp'.sel)) =>
       LET s == SelStart(lastOp'.sel)
           e == SelEnd(lastOp'.sel)
           t == lastOp'.input
           flat == Flat(lines)
           head == SubSeq(flat, 1, Index(lines, s))
           selected == SubSeq(flat, Index(lines, s) + 1, Index(lines, e))
           rest == SubSeq(flat, Index(lines, e) + 1, Len(flat))
       IN /\ past' = past \o <<Change("removeText", selected, s),
                               Change("insertText", t, s)>>
          /\ Flat(lines') = head \o t \o rest
          /\ Flat(undo(EdNext).lines) = head \o rest
          /\ undo(undo(EdNext)).lines = lines]_vars

SelectionTypeOverWitness ==
    /\ lastOp.kind = "insertText"
    /\ lastOp.pushed = 2
    /\ lastOp.input = <<"b">>
    /\ SelStart(lastOp.sel).line < SelEnd(lastOp.sel).line

\* C5: an insert or delete handler that finds a selection of zero or of
\* several ranges changes neither the lines nor past nor future.
MultiRangeRejected ==
    [][(/\ lastOp'.kind \in {"insertText", "removeText"}
        /\ lastOp'.sel.rangeCount # 1) =>
       (/\ UNCHANGED <<lines, textNr, past, future>>
        /\ lastOp'.log = LogMultiRange)]_vars

MultiRangeRejectedWitness ==
    /\ lastOp.kind = "removeText"
    /\ lastOp.sel.rangeCount = 2
    /\ lastOp.log = LogMultiRange
    /\ Len(lines[1]) > 0
    /\ future # <<>>

\* C6: a backward delete with the caret at line 0 offset 0, and a forward
\* delete with the caret at the end of the last line, change neither the
\* lines nor past nor future.
NoOpEdit ==
    [][(/\ lastOp'.kind = "removeText"
        /\ lastOp'.sel.rangeCount = 1
        /\ Collapsed(lastOp'.sel)
        /\ \/ lastOp'.input = "backward" /\ SelStart(lastOp'.sel) = Pos(0, 0)
           \/ lastOp'.input = "forward" /\
              SelStart(lastOp'.sel) = Pos(Len(lines) - 1, Len(lines[Len(lines)]))) =>
       UNCHANGED <<lines, textNr, past, future>>]_vars

NoOpEditWitness ==
    /\ lastOp.kind = "removeText"
    /\ lastOp.input = "forward"
    /\ lastOp.log = LogNoText
    /\ lastOp.pushed = 0
    /\ Len(lines) > 1
    /\ future # <<>>

\* C7: the buffer always has at least one line.
BufferNonEmpty == Len(lines) >= 1

BufferNonEmptyWitness ==
    /\ lastOp.kind = "removeText"
    /\ lastOp.pushed = 1
    /\ \E i \in 1..Len(past[Len(past)].text) : past[Len(past)].text[i] = NL
    /\ lines = << <<>> >>

\* C8: with an empty past History.undo returns null and leaves the history,
\* and Undo changes nothing; the same for redo and an empty future.
HistoryUnderflow ==
    [][/\ past = <<>> => History_undo(Hist(EdAt(sel))) =
                             [h |-> Hist(EdAt(sel)), ret |-> Null]
       /\ future = <<>> => History_redo(Hist(EdAt(sel))) =
                               [h |-> Hist(EdAt(sel)), ret |-> Null]
       /\ (past = <<>> /\ lastOp'.kind = "undo") =>
              UNCHANGED <<lines, textNr, past, future, sel>>
       /\ (future = <<>> /\ lastOp'.kind = "redo") =>
              UNCHANGED <<lines, textNr, past, future, sel>>]_vars

HistoryUnderflowWitness ==
    /\ lastOp.kind = "undo"
    /\ lastOp.replayed = 0
    /\ past = <<>>
    /\ future # <<>>

\* C11: canUndo() is true exactly when past has an entry and canRedo() exactly
\* when future has one; with N changes in past at the last push and k of them
\* undone since (undos less redos), canUndo() is k < N and canRedo() is k > 0.
CanUndoRedoOccupancy ==
    LET h == Hist(EdAt(sel))
        N == Len(snap.past)
        k == undone
    IN /\ canUndo(h) <=> past # <<>>
       /\ canRedo(h) <=> future # <<>>
       /\ 0 <= k /\ k <= N
       /\ canUndo(h) <=> k < N
       /\ canRedo(h) <=> k > 0

CanUndoRedoOccupancyWitness ==
    /\ lastOp.kind = "undo"
    /\ lastOp.replayed = 1
    /\ Len(snap.past) = 2
    /\ undone = 2
    /\ ~canUndo(Hist(EdAt(sel)))
    /\ canRedo(Hist(EdAt(sel)))

\* C12: an insert or delete handler that leaves the text of every line as it
\* was pushes nothing: past and future stay as they were.
NoOpDiscardsChange ==
    [][(/\ lastOp'.kind \in {"insertText", "removeText"}
        /\ lines' = lines) =>
       UNCHANGED <<past, future>>]_vars

\* C13: getText(from, to) with from after to in document order ends in an
\* InvalidRange error and returns no string.
GetTextInvalidRange ==
    (pc = "gotText" /\ Before(arg.to, arg.from)) => ret.error = "InvalidRange"

\* C14: getPosition gives a position on a line of the buffer or fails with
\* OutOfBounds: it never returns a line index outside 0..N-1.
GetPositionOutOfBounds ==
    pc = "resolved" =>
        \/ ret.error = "OutOfBounds"
        \/ ret.error = "none" /\ ret.value.line \in 0..(Len(lines) - 1)

\* the number of entries of a sequence equal to c
Count(q, c) == Cardinality({i \in 1..Len(q) : q[i] = c})

\* C15: an Undo that finds a change moves the last entry of past to the end of
\* future, a Redo that finds one moves the last entry of future to the end of
\* past; neither adds, drops or alters a Change of the history.
UndoRedoNeverPush ==
    [][/\ (lastOp'.kind = "undo" /\ past # <<>>) =>
              /\ past' = SubSeq(past, 1, Len(past) - 1)
              /\ future' = Append(future, past[Len(past)])
       /\ (lastOp'.kind = "redo" /\ future # <<>>) =>
              /\ future' = SubSeq(future, 1, Len(future) - 1)
              /\ past' = Append(past, future[Len(future)])
       /\ lastOp'.kind \in {"undo", "redo"} =>
              /\ lastOp'.pushed = 0
              /\ \A i \in 1..Len(past' \o future') :
                    Count(past' \o future', (past' \o future')[i]) =
                    Count(past \o future, (past' \o future')[i])
              /\ Len(past' \o future') = Len(past \o future)]_vars

UndoRedoNeverPushWitness ==
    /\ lastOp.kind = "redo"
    /\ lastOp.replayed = 1
    /\ past # <<>>
    /\ future # <<>>
    /\ past[1].type # future[1].type

\* C16: an insert of text t with a collapsed caret at p makes the buffer the
\* result of insertText(p, t) (the old text with t put in at p), appends the
\* one Change {insertText, t, p} to past, empties future, and places the caret
\* at the position insertText returned, the end of the inserted text.
CollapsedInsert ==
    [][(/\ lastOp'.kind = "insertText"
        /\ lastOp'.sel.rangeCount = 1
        /\ Collapsed(lastOp'.sel)) =>
       LET p == SelStart(lastOp'.sel)
           t == lastOp'.input
           r == insertText(Dom(EdAt(lastOp'.sel)), p, t)
           flat == Flat(lines)
       IN /\ lines' = r.dom.lines
          /\ Flat(lines') = SubSeq(flat, 1, Index(lines, p)) \o t \o
                            SubSeq(flat, Index(lines, p) + 1, Len(flat))
          /\ past' = Append(past, Change("insertText", t, p))
          /\ future' = <<>>
          /\ sel' = Caret(r.ret)
          /\ SelStart(sel') \in ValidPos(lines')
          /\ Index(lines', SelStart(sel')) = Index(lines, p) + Len(t)]_vars

CollapsedInsertWitness ==
    /\ lastOp.kind = "insertText"
    /\ lastOp.pushed = 1
    /\ lastOp.cleared > 0
    /\ lastOp.input = <<NL>>
    /\ SelStart(lastOp.sel).offset > 0
    /\ sel = Caret(Pos(SelStart(lastOp.sel).line + 1, 0))

\* C17: a delete that is not rejected removes the range [from, to] - the
\* bounds of a selection that is not collapsed, whatever the direction;
\* [movePosition(caret, -1), caret] for a backward delete and [caret,
\* movePosition(caret, 1)] for a forward delete at a collapsed caret - and
\* only it, appends the one Change {removeText, getText(from, to) of the
\* buffer before the removal, from} to past, and places the caret at from.
DeleteFamily ==
    [][(/\ lastOp'.kind = "removeText"
        /\ lastOp'.sel.rangeCount = 1
        /\ lastOp'.log # LogNoText) =>
       LET caret == SelStart(lastOp'.sel)
           from == IF ~Collapsed(lastOp'.sel) THEN SelStart(lastOp'.sel)
                   ELSE IF lastOp'.input = "backward"
                   THEN movePosition(lines, caret, -1)
                   ELSE caret
           to == IF ~Collapsed(lastOp'.sel) THEN SelEnd(lastOp'.sel)
                 ELSE IF lastOp'.input = "backward"
                 THEN caret
                 ELSE movePosition(lines, caret, 1)
           flat == Flat(lines)
           removed == SubSeq(flat, Index(lines, from) + 1, Index(lines, to))
       IN /\ Before(from, to)
          /\ lines' = removeText(Dom(EdAt(lastOp'.sel)), from, to).lines
          /\ Flat(lines') = SubSeq(flat, 1, Index(lines, from)) \o
                            SubSeq(flat, Index(lines, to) + 1, Len(flat))
          /\ getText(lines, from, to) = removed
          /\ past' = Append(past, Change("removeText", removed, from))
          /\ sel' = Caret(from)]_vars

DeleteFamilyWitness ==
    /\ lastOp.kind = "removeText"
    /\ lastOp.pushed = 1
    /\ lastOp.input = "forward"
    /\ Collapsed(lastOp.sel)
    /\ past[Len(past)].text = <<NL>>
    /\ sel = lastOp.sel

\* C18: movePosition(p, delta) on a valid p leaves the buffer as it is and
\* returns a valid position: the one delta characters from p in the whole
\* text, a line break counting as one character, or (0, 0) when that is
\* before the start and the end of the last line when it is after the end.
MoveClampedTotal ==
    pc = "moved" =>
        LET target == Index(lines, arg.position) + arg.delta
            size == Len(Flat(lines))
        IN /\ lines = orig
           /\ ret.value \in ValidPos(lines)
           /\ Index(lines, ret.value) = Max(0, Min(target, size))
           /\ target < 0 => ret.value = Pos(0, 0)
           /\ target > size =>
                  ret.value = Pos(Len(lines) - 1, Len(lines[Len(lines)]))
           /\ ret.clamped <=> (target < 0 \/ target > size)

MoveClampedTotalWitness ==
    /\ pc = "moved"
    /\ Len(lines) = 3
    /\ arg.position = Pos(1, 1)
    /\ arg.delta = -MaxDelta
    /\ ret.clamped
    /\ ret.value = Pos(0, 0)

\* C19: insertText(p, t), t split at its line breaks into s0..s(n-1), head and
\* tail the line of p split at p.offset: for n = 1 the line becomes head + s0
\* + tail and (p.line, p.offset + len(s0)) is returned; for n > 1 the line
\* becomes head + s0, s1..s(n-2) follow as lines of their own, then s(n-1) +
\* tail, and (p.line + n - 1, len(s(n-1))) is returned; the other lines keep
\* their text and order and the buffer has n - 1 lines more.
InsertTextResult ==
    pc = "inserted" =>
        LET p == arg.position
            s == split(arg.text)
            n == Len(s)
            old == orig[p.line + 1]
            head == SubSeq(old, 1, p.offset)
            tail == SubSeq(old, p.offset + 1, Len(old))
            new == IF n = 1
                   THEN << head \o s[1] \o tail >>
                   ELSE << head \o s[1] >> \o SubSeq(s, 2, n - 1) \o << s[n] \o tail >>
        IN /\ Flat(s) = arg.text
           /\ \A i \in 1..n : \A j \in 1..Len(s[i]) : s[i][j] # NL
           /\ lines = SubSeq(orig, 1, p.line) \o new \o
                      SubSeq(orig, p.line + 2, Len(orig))
           /\ Len(lines) = Len(orig) + n - 1
           /\ ret.value = IF n = 1 THEN Pos(p.line, p.offset + Len(s[1]))
                          ELSE Pos(p.line + n - 1, Len(s[n]))

InsertTextResultWitness ==
    /\ pc = "inserted"
    /\ arg.text = <<"b", NL, NL>>
    /\ Len(orig) = 3
    /\ arg.position = Pos(1, 1)
    /\ orig[2] = <<"a", "b">>
    /\ lines = <<orig[1], <<"a", "b">>, <<>>, <<"b">>, orig[3]>>
    /\ ret.value = Pos(3, 0)

\* C20: removeText(from, to) with from not after to: the line of from becomes
\* its text before from.offset followed by the text of the line of to from
\* to.offset on, the lines after it up to the line of to are gone, so the
\* buffer has to.line - from.line lines less, the other lines keep their text
\* and order, and with from = to nothing changes.
RemoveTextResult ==
    pc = "removedRange" =>
        LET from == arg.from
            to == arg.to
            first == orig[from.line + 1]
            last == orig[to.line + 1]
        IN /\ lines = SubSeq(orig, 1, from.line) \o
                      << SubSeq(first, 1, from.offset) \o
                         SubSeq(last, to.offset + 1, Len(last)) >> \o
                      SubSeq(orig, to.line + 2, Len(orig))
           /\ Len(lines) = Len(orig) - (to.line - from.line)
           /\ from = to => lines = orig

RemoveTextResultWitness ==
    /\ pc = "removedRange"
    /\ orig = << <<"a", "b">>, <<"a">>, <<"a", "b">> >>
    /\ arg.from = Pos(0, 1)
    /\ arg.to = Pos(2, 1)
    /\ lines = << <<"a", "b">> >>

\* C21: getText(from, to) with from not after to: on one line the characters
\* of the line from from.offset up to to.offset; across lines the rest of the
\* line of from, every line between as it is, and the line of to up to
\* to.offset, with one line break between each two; the buffer stays as it is,
\* and movePosition from from by the length of the result arrives at to.
GetTextResult ==
    (pc = "gotText" /\ BeforeEq(arg.from, arg.to)) =>
        LET from == arg.from
            to == arg.to
            first == lines[from.line + 1]
            last == lines[to.line + 1]
            expected ==
                IF from.line = to.line
                THEN SubSeq(first, from.offset + 1, to.offset)
                ELSE Flat(<< SubSeq(first, from.offset + 1, Len(first)) >> \o
                          SubSeq(lines, from.line + 2, to.line) \o
                          << SubSeq(last, 1, to.offset) >>)
        IN /\ ret.error = "none"
           /\ ret.value = expected
           /\ lines = orig
           /\ movePosition(lines, from, Len(ret.value)) = to
           /\ ~moveClamped(lines, from, Len(ret.value))

GetTextResultWitness ==
    /\ pc = "gotText"
    /\ Len(lines) = 3
    /\ arg.from = Pos(0, 1)
    /\ arg.to = Pos(2, 1)
    /\ ret.value = <<"b", NL, "a", NL, "a">>

\* C22: the documents the editor is opened on have no line break inside a
\* line, and after any inserts (of line breaks too), deletes, undos and redos
\* no line of the buffer holds a line break.
NoLineBreakInLine ==
    \A i \in 1..Len(lines) : \A j \in 1..Len(lines[i]) : lines[i][j] # NL

NoLineBreakInLineWitness ==
    /\ lastOp.kind = "redo"
    /\ lastOp.replayed = 1
    /\ past[Len(past)] = Change("insertText", <<NL>>, Pos(0, 1))
    /\ lines = << <<"a">>, <<"b">> >>
    /\ orig = << <<"a", "b">> >>

\* C23: an Undo or Redo that changes the buffer leaves a collapsed caret at
\* the end of the text its replay inserted, or at the start of the range its
\* replay removed.
UndoRedoPlacesCaret ==
    [][(/\ lastOp'.kind \in {"undo", "redo"}
        /\ lastOp'.replayed = 1
        /\ lines' # lines) =>
       LET c == IF lastOp'.kind = "undo"
                THEN invertChange(past[Len(past)])
                ELSE future[Len(future)]
           place == IF c.type = "insertText"
                    THEN insertText(Dom(EdAt(sel)), c.position, c.text).ret
                    ELSE c.position
       IN sel' = Caret(place)]_vars

\* Undo repeated until canUndo() is false
RECURSIVE UndoAll(_)
UndoAll(e) == IF canUndo(Hist(e)) THEN UndoAll(undo(e)) ELSE e

\* C24: whatever inserts, deletes, undos and redos ran since the editor was
\* opened on a buffer with an empty history, Undo repeated until canUndo() is
\* false leaves every line as it was in that buffer.
UndoToExhaustion ==
    /\ UndoAll(EdAt(sel)).lines = orig
    /\ ~canUndo(Hist(EdAt(sel))) => lines = orig

UndoToExhaustionWitness ==
    /\ lastOp.kind = "undo"
    /\ lastOp.replayed = 1
    /\ ~canUndo(Hist(EdAt(sel)))
    /\ Len(future) = 2
    /\ future[1].type = "insertText"
    /\ future[2].type = "removeText"
    /\ snap.lines # orig
    /\ lines = orig

\* C25: the gutter, which starts with the cells 1..N of an N-line buffer, holds
\* one cell per line of the buffer, and its k-th cell is labelled k.
GutterInStep == textNr = Labels(Len(lines))

\* C26: once a search has found a match, searchNext and searchPrevious keep
\* currentIndex within 0..(number of matches - 1), wrapping at both ends, and
\* the match at currentIndex is the only one that carries the current marker,
\* once; no call ends in an error; before any search, and with no match,
\* searchNext and searchPrevious change nothing.
SearchCursorInRange ==
    [][/\ (~isNaN(currentIndex') /\ Len(results') > 0) =>
              /\ currentIndex'.num \in 0..(Len(results') - 1)
              /\ \A i \in 1..Len(results') :
                    Count(results'[i], className) =
                        IF i - 1 = currentIndex'.num THEN 1 ELSE 0
       /\ ret'.error = "none"
       /\ (/\ arg'.call \in {"searchNext", "searchPrevious"}
           /\ ~isNaN(currentIndex)
           /\ Len(results) > 0) =>
              currentIndex'.num =
                  IF arg'.call = "searchNext"
                  THEN (currentIndex.num + 1) % Len(results)
                  ELSE (currentIndex.num + Len(results) - 1) % Len(results)
       /\ (/\ arg'.call \in {"searchNext", "searchPrevious"}
           /\ (isNaN(currentIndex) \/ Len(results) = 0)) =>
              UNCHANGED <<currentIndex, results, isNext>>]_vars

SearchCursorInRangeWitness ==
    /\ arg.call = "searchPrevious"
    /\ currentIndex = Num(2)
    /\ Len(results) = 3
    /\ isNext = FALSE
    /\ results = <<Marked, Marked, Append(Marked, className)>>

====
